---- MODULE Spec2Model ----
(***************************************************************************)
(* A model of the BeOfficial Streamlit app (src/app.py): the mail delivery *)
(* function send_email, the e-mail composer email_preview, the JSON export *)
(* and the in-session agent collection.                                    *)
(*                                                                         *)
(* Text.  A Python str is modelled as a sequence of tokens.  A token is    *)
(* one character of user-supplied text (" ", "\n", "x", "2", ...) or one   *)
(* literal chunk of the program's own text ("Subject: ", ", ", "OK",       *)
(* "SMTP_HOST", ...).  Concatenation is \o, the empty str is << >>.        *)
(* Optional[str] is a record [some, val]; None is [some |-> FALSE].        *)
(* A list comprehension [x for x in s if P(x)] is SelectSeq(s, P).         *)
(***************************************************************************)
EXTENDS Integers, Sequences, FiniteSets, TLC

VARIABLES
    environ,    \* os.environ restricted to the SMTP_* names: name -> Optional text
    pc,         \* position inside send_email ("idle" when no call is running)
    port,       \* local `port` of send_email (-1 before line 320 has run)
    sockOpen,   \* the smtplib.SMTP object holds a connected socket
    exc,        \* exception in flight inside the `with` block (Optional text)
    net,        \* what the mail relay has seen during the call, in order: [op, res]
    status,     \* how the send_email call ended: [kind, text]
    draft,      \* widgets of the digest preview page: subject, intro, items, footer
    preview,    \* text shown by the digest preview page (Optional text)
    page,       \* the page the sidebar radio selects
    agents,     \* st.session_state.agents: the ordered collection of Agent records
    download,   \* data of the export page's JSON download button (Optional document)
    edits       \* number of widgets of the Agents page the user has changed so far

vars ==
    <<environ, pc, port, sockOpen, exc, net, status, draft, preview, page, agents,
      download, edits>>

sendVars == <<environ, pc, port, sockOpen, exc, net, status>>
callVars == <<pc, port, sockOpen, exc, net, status>>
previewVars == <<draft, preview>>
storeVars == <<agents, edits>>

-----------------------------------------------------------------------------
(* Bounds of the model *)

\* most rows the data editor of the preview page may hold
MaxItems == 3
\* most rows a data editor of the Agents page may hold
MaxRows == 3
\* most widgets of the Agents page the user changes in one session
MaxEdits == 1

-----------------------------------------------------------------------------
(* Python values *)

None == [some |-> FALSE, val |-> << >>]
Some(s) == [some |-> TRUE, val |-> s]

\* truthiness of an Optional[str]: None and "" are falsy
Truthy(o) == o.some /\ o.val # << >>

\* str.isspace() of one character
IsSpace(c) == c \in {" ", "\n", "\t"}

RECURSIVE LStrip(_)
LStrip(s) == IF s # << >> /\ IsSpace(Head(s)) THEN LStrip(Tail(s)) ELSE s

RECURSIVE RStrip(_)
RStrip(s) ==
    IF s # << >> /\ IsSpace(s[Len(s)]) THEN RStrip(SubSeq(s, 1, Len(s) - 1)) ELSE s

\* str.strip()
Strip(s) == RStrip(LStrip(s))

\* sep.join(parts)
RECURSIVE Join(_, _)
Join(parts, sep) ==
    IF parts = << >> THEN << >>
    ELSE IF Len(parts) = 1 THEN parts[1]
    ELSE parts[1] \o sep \o Join(Tail(parts), sep)

Digits == {"0", "1", "2", "3", "4", "5", "6", "7", "8", "9"}

DigitVal(c) ==
    CASE c = "0" -> 0 [] c = "1" -> 1 [] c = "2" -> 2 [] c = "3" -> 3 [] c = "4" -> 4
      [] c = "5" -> 5 [] c = "6" -> 6 [] c = "7" -> 7 [] c = "8" -> 8 [] c = "9" -> 9

\* int(s) accepts surrounding whitespace, one optional sign, then decimal digits
Unsigned(s) == IF s # << >> /\ Head(s) \in {"+", "-"} THEN Tail(s) ELSE s

IsIntLiteral(s) ==
    LET d == Unsigned(Strip(s))
    IN  d # << >> /\ \A i \in 1..Len(d) : d[i] \in Digits

RECURSIVE DigitsVal(_)
DigitsVal(d) ==
    IF d = << >> THEN 0 ELSE 10 * DigitsVal(SubSeq(d, 1, Len(d) - 1)) + DigitVal(d[Len(d)])

IntOf(s) ==
    LET t == Strip(s)
    IN  IF Head(t) = "-" THEN 0 - DigitsVal(Unsigned(t)) ELSE DigitsVal(Unsigned(t))

-----------------------------------------------------------------------------
(* Pages and what a script run leaves of the previous one *)

\* lines 419-428; "Preview" is "EARLYBIRD - Email Digest Preview" and "Send" is
\* "Send Test Email"
Pages == {"Dashboard", "Agents", "Preview", "Send", "Export"}

\* a script run starts only when no call of send_email is running
ScriptIdle == pc \in {"idle", "done"}

CallStart ==
    /\ pc = "idle"
    /\ port = -1
    /\ sockOpen = FALSE
    /\ exc = None
    /\ net = << >>
    /\ status = [kind |-> "none", text |-> << >>]

\* the locals of an earlier send_email call and the status it showed are gone
\* in the next script run
NoCall ==
    /\ pc' = "idle"
    /\ port' = -1
    /\ sockOpen' = FALSE
    /\ exc' = None
    /\ net' = << >>
    /\ status' = [kind |-> "none", text |-> << >>]

-----------------------------------------------------------------------------
(* send_email *)

\* the list with two of its names exchanged
requiredSwapped == <<"SMTP_HOST", "SMTP_PORT", "SMTP_PASS", "SMTP_USER", "SMTP_FROM">>

\* line 314
required == <<"SMTP_HOST", "SMTP_PORT", "SMTP_USER", "SMTP_PASS", "SMTP_FROM">>

\* os.environ.get(k)
EnvGet(k) == environ[k]

\* a check that takes an empty value for a present one
IsMissingUnsetOnly(k) == ~EnvGet(k).some

\* not os.environ.get(k)
IsMissing(k) == ~Truthy(EnvGet(k))

\* line 315: missing = [k for k in required if not os.environ.get(k)]
missing == SelectSeq(required, IsMissing)

\* the names of `missing` as text
NameText(names) == [i \in 1..Len(names) |-> <<names[i]>>]

\* line 317
MissingMessage(names) ==
    <<"Missing environment variables: ">> \o Join(NameText(names), <<", ">>)

Returned(text) == [kind |-> "returned", text |-> text]
Raised(text) == [kind |-> "raised", text |-> text]

\* line 337
OKText == <<"OK">>
\* line 339
ErrorText(msg) == <<"Error: ">> \o msg

\* str(e) of the exception each step of the exchange raises when the relay
\* answers it with an error
StageMsg(op) ==
    CASE op = "connect" -> <<"connect refused">>
      [] op = "starttls" -> <<"STARTTLS rejected">>
      [] op = "login" -> <<"authentication failed">>
      [] op = "send_message" -> <<"message rejected">>
      [] op = "QUIT" -> <<"QUIT answered without 221">>

\* str(e) of SMTPServerDisconnected
DroppedMsg == <<"Connection unexpectedly closed">>

Event(op, res) == [op |-> op, res |-> res]

\* lines 662-663: the form of the Send Test Email page is submitted and the
\* script calls send_email(to_email, subject, body)
Call ==
    /\ page = "Send"
    /\ ScriptIdle
    /\ pc' = "check"
    /\ port' = -1
    /\ sockOpen' = FALSE
    /\ exc' = None
    /\ net' = << >>
    /\ status' = [kind |-> "none", text |-> << >>]
    /\ UNCHANGED <<environ, previewVars, page, storeVars, download>>

\* lines 314-317: the required names are checked; the call ends when one is missing
CheckRequired ==
    /\ pc = "check"
    /\ IF missing # << >>
       THEN /\ status' = Returned(MissingMessage(missing))
            /\ pc' = "done"
       ELSE /\ pc' = "config"
            /\ UNCHANGED status
    /\ UNCHANGED <<environ, port, sockOpen, exc, net>>
    /\ UNCHANGED <<previewVars, page, storeVars, download>>

\* lines 319-331: the configuration is read and the message built; int() of a
\* port that is no integer literal raises ValueError, outside the try block
ReadConfig ==
    /\ pc = "config"
    /\ IF IsIntLiteral(environ["SMTP_PORT"].val)
       THEN /\ port' = IntOf(environ["SMTP_PORT"].val)
            /\ pc' = "connect"
            /\ UNCHANGED status
       ELSE /\ status' = Raised(<<"ValueError">>)
            /\ pc' = "done"
            /\ UNCHANGED port
    /\ UNCHANGED <<environ, sockOpen, exc, net>>
    /\ UNCHANGED <<previewVars, page, storeVars, download>>

\* line 333, smtplib.SMTP(host, port): the constructor connects; when it raises,
\* the `with` block is never entered and line 339 returns the error
Connect(res) ==
    /\ pc = "connect"
    /\ net' = Append(net, Event("connect", res))
    /\ IF res = "ok"
       THEN /\ sockOpen' = TRUE
            /\ pc' = "starttls"
            /\ UNCHANGED status
       ELSE /\ status' = Returned(ErrorText(StageMsg("connect")))
            /\ pc' = "done"
            /\ UNCHANGED sockOpen
    /\ UNCHANGED <<environ, port, exc>>
    /\ UNCHANGED <<previewVars, page, storeVars, download>>

\* a body that goes on to the next line whatever the relay answered
AfterCommandIgnoringFailure(res, next) == next

\* a body that starts over with a new connection when a command failed
AfterCommandRetrying(res, next) == IF res = "ok" THEN next ELSE "connect"

\* where control goes after a command of the `with` body: to the next line, or,
\* when the command raised, out of the body to the context manager's exit
AfterCommand(res, next) == IF res = "ok" THEN next ELSE "exit"

\* one command of the `with` body (lines 334-336): on "ok" the relay accepts
\* it; on "fail" the relay answers with an error and the command raises; on
\* "drop" the relay closes the connection and the command raises
Command(at, op, res, next) ==
    /\ pc = at
    /\ net' = Append(net, Event(op, res))
    /\ pc' = AfterCommand(res, next)
    /\ exc' = CASE res = "ok" -> exc
                [] res = "fail" -> Some(StageMsg(op))
                [] res = "drop" -> Some(DroppedMsg)
    /\ sockOpen' = (res # "drop")
    /\ UNCHANGED <<environ, port, status>>
    /\ UNCHANGED <<previewVars, page, storeVars, download>>

\* line 334
StartTLS(res) == Command("starttls", "starttls", res, "login")
\* line 335
Login(res) == Command("login", "login", res, "send")
\* line 336
SendMessage(res) == Command("send", "send_message", res, "exit")

\* the exception that leaves the `with` statement of line 333: SMTP.__exit__
\* sends QUIT on a connected socket and raises when the answer is not 221,
\* which replaces the exception of the body; a disconnect during QUIT is
\* swallowed
AfterExit(q) == IF sockOpen /\ q = "other" THEN Some(StageMsg("QUIT")) ELSE exc

\* what the relay sees when the `with` statement is left: QUIT and the close
\* of the socket, when there still is a connection
ExitEvents(q) ==
    IF sockOpen THEN <<Event("QUIT", q), Event("close", "ok")>> ELSE << >>

\* leaving the `with` block of line 333, then line 337 or lines 338-339
Exit(q) ==
    /\ pc = "exit"
    /\ net' = net \o ExitEvents(q)
    /\ sockOpen' = FALSE
    /\ exc' = AfterExit(q)
    /\ status' = IF AfterExit(q).some
                 THEN Returned(ErrorText(AfterExit(q).val))
                 ELSE Returned(OKText)
    /\ pc' = "done"
    /\ UNCHANGED <<environ, port>>
    /\ UNCHANGED <<previewVars, page, storeVars, download>>

Outcomes == {"ok", "fail", "drop"}
QuitOutcomes == {"221", "other", "drop"}

Names == {required[i] : i \in 1..Len(required)}

\* values the environment may give the SMTP_* names
EnvValues(k) ==
    IF k = "SMTP_PORT"
    THEN {None, Some(<< >>), Some(<<"2", "5">>), Some(<<" ", "5", "8", "7">>), Some(<<"x">>)}
    ELSE {None, Some(<< >>), Some(<<"v">>)}

Environments == {e \in [Names -> UNION {EnvValues(k) : k \in Names}] :
                    \A k \in Names : e[k] \in EnvValues(k)}

-----------------------------------------------------------------------------
(* email_preview and the digest preview page *)

\* the bullet glyph of line 362
Glyph == "<bullet>"

\* a bullet line without the space after the glyph
BulletLineTight(b) == <<Glyph>> \o b

\* f"<glyph> {b}"
BulletLine(b) == <<Glyph, " ">> \o b

\* a filter that keeps whitespace-only bullets
NotEmpty(b) == b # << >>

\* b.strip() is truthy
NotBlank(b) == Strip(b) # << >>

\* lines 356-367
email_preview(subject, intro, bullets, footer) ==
    LET kept == SelectSeq(bullets, NotBlank)
        body == << <<"Subject: ">> \o subject, << >>, intro, << >> >>
                \o [i \in 1..Len(kept) |-> BulletLine(kept[i])]
                \o << << >>, footer >>
    IN  Join(body, <<"\n">>)

\* a call email_preview(subject, intro, bullets, footer) on the texts held in
\* `draft`, outside any page
Compose ==
    /\ ~preview.some
    /\ preview' = Some(email_preview(draft.subject, draft.intro, draft.items, draft.footer))
    /\ UNCHANGED <<draft, sendVars, page, storeVars, download>>

\* [x for x in rows if x] over the cells of a data editor's column (lines 538,
\* 546, 552, 558, 565, 571, 614): None and "" are dropped
CellText(rows) == [i \in 1..Len(rows) |-> rows[i].val]
TruthyCells(rows) == CellText(SelectSeq(rows, Truthy))

\* a cell of a data editor row: None for a row added and left empty
Cells ==
    {None} \cup {Some(t) : t \in {<< >>, <<" ">>, <<" ", " ">>, <<"x">>, <<" ", "x">>, <<"y">>}}

\* the bullets email_preview is called with
Bullets == {<< >>, <<" ">>, <<" ", " ">>, <<"x">>, <<" ", "x">>, <<"y">>}

RECURSIVE SeqsUpTo(_, _)
SeqsUpTo(S, n) ==
    IF n = 0 THEN {<< >>}
    ELSE LET shorter == SeqsUpTo(S, n - 1)
         IN  shorter \cup {Append(q, x) : q \in {r \in shorter : Len(r) = n - 1}, x \in S}

Subjects == {<<"x">>, << >>}
Intros == {<<"x">>, <<"x", "\n", "y">>}
Footers == {<<"x">>, <<"x", "\n">>}

\* lines 594-608: the widgets' initial values
DefaultDraft ==
    [subject |-> <<"x">>, intro |-> <<"x">>,
     items |-> <<Some(<<"x">>), Some(<<"y">>), Some(<<"x">>)>>, footer |-> <<"x">>]

RemoveAt(s, i) == SubSeq(s, 1, i - 1) \o SubSeq(s, i + 1, Len(s))

\* the rows of a data editor with num_rows="dynamic" after one change by the
\* user: a cell retyped, a row added, a row deleted
RowChanges(rows, cells, max) ==
    {[rows EXCEPT ![i] = c] : i \in 1..Len(rows), c \in cells}
    \cup {Append(rows, c) : c \in IF Len(rows) < max THEN cells ELSE {}}
    \cup {RemoveAt(rows, i) : i \in 1..Len(rows)}

\* the widgets of the preview page after the user changed one of them
DraftChanges(d) ==
    {[d EXCEPT !.subject = v] : v \in Subjects}
    \cup {[d EXCEPT !.intro = v] : v \in Intros}
    \cup {[d EXCEPT !.footer = v] : v \in Footers}
    \cup {[d EXCEPT !.items = r] : r \in RowChanges(d.items, Cells, MaxItems)}

\* the widgets a run of the preview page may find: their initial values when
\* the page was not shown before, else what they were or one change by the user
NextDrafts == IF page = "Preview" THEN {draft} \cup DraftChanges(draft) ELSE {DefaultDraft}

\* lines 589-620: one run of the script with the preview page selected
PreviewPage(d) ==
    /\ ScriptIdle
    /\ d \in NextDrafts
    /\ page' = "Preview"
    /\ draft' = d
    /\ preview' = Some(email_preview(d.subject, d.intro, TruthyCells(d.items), d.footer))
    /\ download' = None
    /\ NoCall
    /\ UNCHANGED <<environ, storeVars>>

-----------------------------------------------------------------------------
(* The agent collection *)

\* the fields in alphabetical order, as json.dumps(sort_keys=True) would give
AgentFieldsSorted ==
    <<"codename", "core_tasks", "data_sources", "example_prompts", "guardrails",
      "inputs", "kpis", "mission", "name", "notes", "outputs", "target_audience",
      "value_proposition">>

\* lines 29-43: the fields of Agent in declaration order
AgentFields ==
    <<"name", "codename", "mission", "target_audience", "value_proposition",
      "core_tasks", "inputs", "outputs", "data_sources", "kpis", "guardrails",
      "notes", "example_prompts">>

TextFields == {"name", "codename", "mission", "target_audience", "value_proposition"}
ListFields ==
    {"core_tasks", "inputs", "outputs", "data_sources", "kpis", "guardrails",
     "example_prompts"}

\* lines 54-300: one seed record. The seed texts are abbreviated to one token
\* each and the seed lists to two entries.
SeedAgent(name, codename, notes, prompts) ==
    [name |-> <<name>>, codename |-> <<codename>>,
     mission |-> <<"mission">>, target_audience |-> <<"audience">>,
     value_proposition |-> <<"value">>,
     core_tasks |-> << <<"task 1">>, <<"task 2">> >>,
     inputs |-> << <<"input 1">>, <<"input 2">> >>,
     outputs |-> << <<"output 1">>, <<"output 2">> >>,
     data_sources |-> << <<"source 1">>, <<"source 2">> >>,
     kpis |-> << <<"kpi 1">>, <<"kpi 2">> >>,
     guardrails |-> << <<"rule 1">>, <<"rule 2">> >>,
     notes |-> notes,
     example_prompts |-> prompts]

\* lines 53-302
load_default_agents ==
    << SeedAgent("Weekly Recruiting Newsletter Writer", "SCRIBE", None,
                 << <<"prompt 1">>, <<"prompt 2">> >>),
       SeedAgent("Social Media Content Producer", "SPARK", None,
                 << <<"prompt 1">>, <<"prompt 2">> >>),
       SeedAgent("Referee News Monitor", "EARLYBIRD", Some(<<"note">>),
                 << <<"prompt 1">> >>),
       SeedAgent("Email List Builder and Lead Generator", "MAGNET", None,
                 << <<"prompt 1">>, <<"prompt 2">> >>),
       SeedAgent("Tournament Scouting and Day Of Coordinator", "RALLY", None,
                 << <<"prompt 1">>, <<"prompt 2">> >>) >>

\* the cells a data editor shows for a list of texts
AsCells(list) == [i \in 1..Len(list) |-> Some(list[i])]

\* agent.notes or ""
OrEmpty(o) == IF Truthy(o) THEN o.val ELSE << >>

EditedTexts == {"mission", "target_audience", "value_proposition", "notes"}
EditedLists == {"kpis", "core_tasks", "inputs", "outputs", "data_sources", "guardrails"}

\* lines 524-580: what the widgets of one record's tab return when the user
\* changed none of them
Untouched(a) ==
    [mission |-> a.mission, target_audience |-> a.target_audience,
     value_proposition |-> a.value_proposition,
     kpis |-> AsCells(a.kpis), core_tasks |-> AsCells(a.core_tasks),
     inputs |-> AsCells(a.inputs), outputs |-> AsCells(a.outputs),
     data_sources |-> AsCells(a.data_sources), guardrails |-> AsCells(a.guardrails),
     notes |-> OrEmpty(a.notes)]

\* the assignments of a tab with the mission widget assigned to the name as well
StoreMissionAsName(a, w) ==
    [a EXCEPT !.name = w.mission,
              !.mission = w.mission,
              !.target_audience = w.target_audience,
              !.value_proposition = w.value_proposition,
              !.kpis = TruthyCells(w.kpis),
              !.core_tasks = TruthyCells(w.core_tasks),
              !.inputs = TruthyCells(w.inputs),
              !.outputs = TruthyCells(w.outputs),
              !.data_sources = TruthyCells(w.data_sources),
              !.guardrails = TruthyCells(w.guardrails),
              !.notes = Some(w.notes)]

\* lines 524-580: the assignments of one record's tab, from what its widgets return
Store(a, w) ==
    [a EXCEPT !.mission = w.mission,
              !.target_audience = w.target_audience,
              !.value_proposition = w.value_proposition,
              !.kpis = TruthyCells(w.kpis),
              !.core_tasks = TruthyCells(w.core_tasks),
              !.inputs = TruthyCells(w.inputs),
              !.outputs = TruthyCells(w.outputs),
              !.data_sources = TruthyCells(w.data_sources),
              !.guardrails = TruthyCells(w.guardrails),
              !.notes = Some(w.notes)]

\* a change of one widget by the user: of record `agent`, the widget of `field`
\* now holds `value`; agent 0 stands for no change
NoChange == [agent |-> 0, field |-> "", value |-> << >>]

\* what the widgets of record i return in a run after change c
Widgets(i, c) ==
    IF c.agent = i THEN [Untouched(agents[i]) EXCEPT ![c.field] = c.value]
    ELSE Untouched(agents[i])

\* texts the user types into a text widget of the Agents page
TypedTexts == {<< >>, <<"x">>}
\* cells the user types into a data editor of the Agents page
TypedCells == {None, Some(<< >>), Some(<<" ">>), Some(<<"x">>)}

\* the tabs whose widgets the user changes: SCRIBE, whose notes are None at
\* the start like those of SPARK, MAGNET and RALLY, and EARLYBIRD, which has notes
EditedTabs == {1, 3}

Changes ==
    {[agent |-> i, field |-> f, value |-> v] :
        i \in EditedTabs, f \in EditedTexts, v \in TypedTexts}
    \cup UNION {{[agent |-> i, field |-> f, value |-> r] :
                    r \in RowChanges(AsCells(agents[i][f]), TypedCells, MaxRows)} :
                i \in EditedTabs, f \in EditedLists}

\* the changes of a whole session: one text widget, the notes and one data editor
SessionChanges == {c \in Changes : c.field \in {"mission", "notes", "kpis"}}

\* the user can change a widget of the Agents page while that page is shown
CanChange == page = "Agents" /\ edits < MaxEdits

Possible(changes) == IF CanChange THEN changes ELSE {}

\* lines 513-582: one run of the script with the Agents page selected; every
\* record's tab is rendered
AgentsPage(c) ==
    /\ ScriptIdle
    /\ \/ c = NoChange /\ UNCHANGED edits
       \/ /\ CanChange
          /\ c \in Changes
          /\ edits' = edits + 1
    /\ page' = "Agents"
    /\ agents' = [i \in 1..Len(agents) |-> Store(agents[i], Widgets(i, c))]
    /\ draft' = DefaultDraft
    /\ preview' = None
    /\ download' = None
    /\ NoCall
    /\ UNCHANGED environ

-----------------------------------------------------------------------------
(* Export *)

\* JSON values: json.dumps turns a str into a string, None into null, a list
\* into an array and a dict into an object whose members keep the insertion
\* order of the dict
JString(t) == [t |-> "string", v |-> t]
JNull == [t |-> "null", v |-> << >>]
JArray(items) == [t |-> "array", v |-> items]
JObject(members) == [t |-> "object", v |-> members]

JStrings(list) == JArray([i \in 1..Len(list) |-> JString(list[i])])

\* JField with absent notes written as an empty string, as `a.notes or ""` would
JFieldNotesOrEmpty(a, f) ==
    CASE f \in TextFields -> JString(a[f])
      [] f \in ListFields -> JStrings(a[f])
      [] f = "notes" -> JString(OrEmpty(a.notes))

\* the JSON value of field f of record a
JField(a, f) ==
    CASE f \in TextFields -> JString(a[f])
      [] f \in ListFields -> JStrings(a[f])
      [] f = "notes" -> IF a.notes.some THEN JString(a.notes.val) ELSE JNull

\* lines 45-46: asdict(self), one member per field in declaration order
to_dict(a) == JObject([i \in 1..Len(AgentFields) |-> <<AgentFields[i], JField(a, AgentFields[i])>>])

\* dt.datetime.now().isoformat() at the instants the wall clock may show
Instants == {<<"2026-11-02T09:00:00.000001">>, <<"2026-11-02T09:00:07.250000">>}

\* lines 342-346
Payload(t) ==
    JObject(<< <<"exported_at", JString(t)>>,
               <<"project", JString(<<"BeOfficial">>)>>,
               <<"agents", JArray([i \in 1..Len(agents) |-> to_dict(agents[i])])>> >>)

\* lines 674-698 with lines 341-353: one run of the script with the Export page
\* selected, when dt.datetime.now().isoformat() is t
ExportPage(t) ==
    /\ ScriptIdle
    /\ page' = "Export"
    /\ download' = Some(Payload(t))
    /\ draft' = DefaultDraft
    /\ preview' = None
    /\ NoCall
    /\ UNCHANGED <<environ, storeVars>>

\* lines 440-506 and lines 627-660: one run of the script with the Dashboard or
\* the Send Test Email page selected and the form not submitted
PlainPage(p) ==
    /\ ScriptIdle
    /\ p \in {"Dashboard", "Send"}
    /\ page' = p
    /\ draft' = DefaultDraft
    /\ preview' = None
    /\ download' = None
    /\ NoCall
    /\ UNCHANGED <<environ, storeVars>>

-----------------------------------------------------------------------------
(* Specifications *)

\* lines 399-402 and 419-428: a new session
SessionStart ==
    /\ page = "Dashboard"
    /\ agents = load_default_agents
    /\ edits = 0
    /\ download = None
    /\ draft = DefaultDraft
    /\ preview = None
    /\ CallStart

\* one call of send_email from the Send Test Email page, under every environment
SendInit ==
    /\ environ \in Environments
    /\ page = "Send"
    /\ agents = load_default_agents
    /\ edits = 0
    /\ download = None
    /\ draft = DefaultDraft
    /\ preview = None
    /\ CallStart

SendNext ==
    \/ pc = "idle" /\ Call
    \/ CheckRequired
    \/ ReadConfig
    \/ \E res \in {"ok", "fail"} : Connect(res)
    \/ \E res \in Outcomes : StartTLS(res)
    \/ \E res \in Outcomes : Login(res)
    \/ \E res \in Outcomes : SendMessage(res)
    \/ \E q \in QuitOutcomes : Exit(q)

SendSpec == SendInit /\ [][SendNext]_vars

\* the digest preview page under every content of its widgets
PreviewInit ==
    /\ environ = [k \in Names |-> None]
    /\ SessionStart

PreviewNext == \E d \in NextDrafts : PreviewPage(d)

PreviewSpec == PreviewInit /\ [][PreviewNext]_vars

\* email_preview on every subject, intro, bullet sequence and footer
ComposeInit ==
    /\ environ = [k \in Names |-> None]
    /\ page = "Dashboard"
    /\ agents = load_default_agents
    /\ edits = 0
    /\ download = None
    /\ draft \in [subject : Subjects, intro : Intros,
                   items : SeqsUpTo(Bullets, MaxItems), footer : Footers]
    /\ preview = None
    /\ CallStart

ComposeNext == Compose

ComposeSpec == ComposeInit /\ [][ComposeNext]_vars

\* the environments of a whole session: nothing set, everything set, everything
\* set with a port that is no number
SessionEnvironments ==
    {[k \in Names |-> None],
     [k \in Names |-> IF k = "SMTP_PORT" THEN Some(<<"2", "5">>) ELSE Some(<<"v">>)],
     [k \in Names |-> Some(<<"x">>)]}

Init ==
    /\ environ \in SessionEnvironments
    /\ SessionStart

Next ==
    \/ \E p \in {"Dashboard", "Send"} : PlainPage(p)
    \/ \E c \in {NoChange} \cup Possible(SessionChanges) : AgentsPage(c)
    \/ \E d \in {draft, DefaultDraft, [draft EXCEPT !.subject = << >>]} : PreviewPage(d)
    \/ \E t \in Instants : ExportPage(t)
    \/ Call
    \/ CheckRequired
    \/ ReadConfig
    \/ \E res \in {"ok", "fail"} : Connect(res)
    \/ \E res \in Outcomes : StartTLS(res)
    \/ \E res \in Outcomes : Login(res)
    \/ \E res \in Outcomes : SendMessage(res)
    \/ \E q \in QuitOutcomes : Exit(q)

Spec == Init /\ [][Next]_vars

\* the Agents page under every change of its widgets, and the export of what
\* it stored
EditorInit ==
    /\ environ = [k \in Names |-> None]
    /\ SessionStart

EditorNext ==
    \/ \E c \in {NoChange} \cup Possible(Changes) : AgentsPage(c)
    \/ \E t \in Instants : ExportPage(t)

EditorSpec == EditorInit /\ [][EditorNext]_vars

-----------------------------------------------------------------------------
(* Properties of send_email, checked under SendSpec *)

\* the five names and their order, as the documentation lists them
ConfigNames == <<"SMTP_HOST", "SMTP_PORT", "SMTP_USER", "SMTP_PASS", "SMTP_FROM">>

\* a name is unset or set to the empty text
Unset(k) == ~environ[k].some \/ environ[k].val = << >>

AnyUnset == \E i \in 1..Len(ConfigNames) : Unset(ConfigNames[i])

\* position i of the exchange is the relay accepting the message
Transmitted == \E i \in 1..Len(net) : net[i] = [op |-> "send_message", res |-> "ok"]

Stages == {"connect", "starttls", "login", "send_message"}

Failed(i) == net[i].op \in Stages /\ net[i].res \in {"fail", "drop"}

\* C1: when one of the five names is unset or empty, the call ends at the
\* check with the missing-configuration message and the relay has seen nothing:
\* no connect, STARTTLS, login or transmit step
C1_MissingConfigFailsFast ==
    (AnyUnset /\ pc \notin {"idle", "check"}) =>
        /\ pc = "done"
        /\ status.kind = "returned"
        /\ status.text # << >>
        /\ status.text[1] = "Missing environment variables: "
        /\ net = << >>
        /\ ~sockOpen

\* a call that ended with only SMTP_HOST empty and the other four names set
C1_Witness ==
    /\ pc = "done"
    /\ environ["SMTP_HOST"] = Some(<< >>)
    /\ \A k \in {"SMTP_PORT", "SMTP_USER", "SMTP_PASS", "SMTP_FROM"} : ~Unset(k)
    /\ status.kind = "returned"
    /\ net = << >>

\* C2: the missing-configuration message names exactly the unset or empty names,
\* in the order SMTP_HOST, SMTP_PORT, SMTP_USER, SMTP_PASS, SMTP_FROM, with a
\* comma (and a space) between two names; with only SMTP_HOST and SMTP_PORT set
\* it names SMTP_USER, SMTP_PASS, SMTP_FROM
C2_MissingNamesInOrder ==
    (AnyUnset /\ pc = "done") =>
        LET names == SelectSeq(ConfigNames, Unset)
            n == Len(names)
            listed == Tail(status.text)
        IN  /\ status.kind = "returned"
            /\ status.text # << >>
            /\ Len(listed) = 2 * n - 1
            /\ \A i \in 1..n : listed[2 * i - 1] = names[i]
            /\ \A i \in 1..(n - 1) : listed[2 * i] = ", "
            /\ (names = <<"SMTP_USER", "SMTP_PASS", "SMTP_FROM">> =>
                    status.text = <<"Missing environment variables: ",
                                    "SMTP_USER", ", ", "SMTP_PASS", ", ", "SMTP_FROM">>)

\* a call that ended with exactly SMTP_HOST and SMTP_PORT set
C2_Witness ==
    /\ pc = "done"
    /\ ~Unset("SMTP_HOST") /\ ~Unset("SMTP_PORT")
    /\ Unset("SMTP_USER") /\ Unset("SMTP_PASS") /\ Unset("SMTP_FROM")
    /\ Len(status.text) = 6

\* C3: when the call has ended, the relay has accepted the message exactly when
\* the call returned "OK"
C3_SentExactlyWhenOK ==
    pc = "done" => (Transmitted <=> status = [kind |-> "returned", text |-> <<"OK">>])

\* C4: every call ends by returning a text; no exception reaches the caller
C4_AlwaysReturnsText == pc = "done" => status.kind = "returned"

\* C5: when one of the stages connect, STARTTLS, login, transmit failed, the call
\* returns "Error: " followed by the message of that failure, and the relay has
\* seen no later stage
C5_StageFailureReported ==
    \A i \in 1..Len(net) :
        (pc = "done" /\ Failed(i)) =>
            /\ status = [kind |-> "returned",
                         text |-> <<"Error: ">> \o
                                  (IF net[i].res = "drop" THEN DroppedMsg
                                   ELSE StageMsg(net[i].op))]
            /\ \A j \in (i + 1)..Len(net) : net[j].op \notin Stages

Rank(op) ==
    CASE op = "connect" -> 1 [] op = "starttls" -> 2 [] op = "login" -> 3
      [] op = "send_message" -> 4 [] op = "QUIT" -> 5 [] op = "close" -> 6

Accepted(op, i) == \E j \in 1..(i - 1) : net[j] = [op |-> op, res |-> "ok"]

\* C6: the relay sees the steps in the order connect, STARTTLS, login, transmit,
\* close; login only after STARTTLS succeeded, the message only after login
\* succeeded; and when the call has ended after a successful connect, the
\* connection is closed, on the success path and on every failure path
C6_StepsInOrder ==
    /\ \A i, j \in 1..Len(net) : i < j => Rank(net[i].op) < Rank(net[j].op)
    /\ \A i \in 1..Len(net) :
        /\ net[i].op = "starttls" => Accepted("connect", i)
        /\ net[i].op = "login" => Accepted("starttls", i)
        /\ net[i].op = "send_message" => Accepted("login", i)
    /\ pc = "done" =>
        /\ ~sockOpen
        /\ Accepted("connect", Len(net) + 1) =>
              \/ net[Len(net)].op = "close"
              \/ \E i \in 1..Len(net) : net[i].res = "drop"

\* a call that went through all five steps and returned "OK"
C6_Witness ==
    /\ pc = "done"
    /\ status.text = <<"OK">>
    /\ [i \in 1..Len(net) |-> net[i].op] =
          <<"connect", "starttls", "login", "send_message", "QUIT", "close">>

\* C7: a call opens at most one connection and tries each stage at most once,
\* and after a failed stage the relay sees nothing but the end of the connection
C7_SingleAttempt ==
    /\ \A i, j \in 1..Len(net) : net[i].op = net[j].op => i = j
    /\ \A i \in 1..Len(net) :
          Failed(i) => \A j \in (i + 1)..Len(net) : net[j].op \in {"QUIT", "close"}
    /\ \A i \in 1..Len(net) : (Failed(i) /\ pc # "exit") => pc = "done"

\* a call that ended after the relay rejected the message
C7_Witness ==
    /\ pc = "done"
    /\ \E i \in 1..Len(net) : net[i] = [op |-> "send_message", res |-> "fail"]
    /\ status.text[1] = "Error: "

-----------------------------------------------------------------------------
(* Properties of email_preview, checked under ComposeSpec *)

\* a bullet that is neither empty nor whitespace-only
Visible(b) == \E i \in 1..Len(b) : b[i] \notin {" ", "\n", "\t"}

Retained == SelectSeq(draft.items, Visible)

ExpectedLines ==
    << <<"Subject: ">> \o draft.subject, << >>, draft.intro, << >> >>
    \o [i \in 1..Len(Retained) |-> <<"<bullet>", " ">> \o Retained[i]]
    \o << << >>, draft.footer >>

RECURSIVE WithNewlines(_)
WithNewlines(lines) ==
    IF Len(lines) = 1 THEN lines[1]
    ELSE WithNewlines(SubSeq(lines, 1, Len(lines) - 1)) \o <<"\n">> \o lines[Len(lines)]

NoNewline(t) == \A i \in 1..Len(t) : t[i] # "\n"

RECURSIVE SplitLines(_)
SplitLines(t) ==
    IF NoNewline(t) THEN <<t>>
    ELSE LET i == CHOOSE k \in 1..Len(t) : t[k] = "\n" /\ NoNewline(SubSeq(t, 1, k - 1))
         IN  <<SubSeq(t, 1, i - 1)>> \o SplitLines(SubSeq(t, i + 1, Len(t)))

IsBulletLine(line) == line # << >> /\ line[1] = "<bullet>"

\* C8: the result is "Subject: " + subject, an empty line, intro, an empty
\* line, one line glyph + " " + b per retained bullet b in order, an empty line
\* and footer, with one newline between two lines: 6 + the number of retained
\* bullets lines when no input holds a newline
C8_PreviewLines ==
    preview.some =>
        /\ preview.val = WithNewlines(ExpectedLines)
        /\ (NoNewline(draft.subject) /\ NoNewline(draft.intro) /\ NoNewline(draft.footer)
            /\ \A i \in 1..Len(draft.items) : NoNewline(draft.items[i])) =>
                /\ SplitLines(preview.val) = ExpectedLines
                /\ Len(SplitLines(preview.val)) = 6 + Len(Retained)

\* a result with two bullet lines out of three bullets, no input holding a newline
C8_Witness ==
    /\ preview.some
    /\ Len(draft.items) = 3
    /\ Len(Retained) = 2
    /\ NoNewline(draft.intro) /\ NoNewline(draft.footer)
    /\ Len(SplitLines(preview.val)) = 8

\* C9: the bullet lines of the result are those of the bullets that are not
\* empty or whitespace-only, each untrimmed and in the original order; the
\* bullets "", "  ", "x" give the one bullet line glyph + " x"
C9_BlankBulletsDropped ==
    preview.some =>
        /\ SelectSeq(SplitLines(preview.val), IsBulletLine) =
              [i \in 1..Len(Retained) |-> <<"<bullet>", " ">> \o Retained[i]]
        /\ draft.items = << << >>, <<" ", " ">>, <<"x">> >> =>
              SelectSeq(SplitLines(preview.val), IsBulletLine) = << <<"<bullet>", " ", "x">> >>

\* the result for the bullets "", "  ", "x"
C9_Witness ==
    /\ preview.some
    /\ draft.items = << << >>, <<" ", " ">>, <<"x">> >>

-----------------------------------------------------------------------------
(* Properties of the export, checked under EditorSpec *)

Keys(object) == [i \in 1..Len(object.v) |-> object.v[i][1]]

Member(object, key) ==
    object.v[CHOOSE i \in 1..Len(object.v) : object.v[i][1] = key][2]

PyStr(t) == [py |-> "str", val |-> t]
PyNone == [py |-> "NoneType", val |-> << >>]
PyList(items) == [py |-> "list", val |-> items]

LoadScalar(j) == IF j.t = "null" THEN PyNone ELSE PyStr(j.v)

Load(j) ==
    IF j.t = "array" THEN PyList([i \in 1..Len(j.v) |-> LoadScalar(j.v[i])])
    ELSE LoadScalar(j)

\* the dict json.loads builds for an object: its keys, each with its value
LoadDict(object) ==
    [k \in {object.v[i][1] : i \in 1..Len(object.v)} |-> Load(Member(object, k))]

\* the value of field f of record a, as == on records compares it
FieldValue(a, f) ==
    CASE f \in TextFields -> PyStr(a[f])
      [] f \in ListFields -> PyList([i \in 1..Len(a[f]) |-> PyStr(a[f][i])])
      [] f = "notes" -> IF a.notes.some THEN PyStr(a.notes.val) ELSE PyNone

FieldNames == {AgentFields[i] : i \in 1..Len(AgentFields)}

\* Agent(**d) accepts the dict d, its keys being the fields, and the record
\* it builds equals a
RebuildsTo(d, a) ==
    /\ DOMAIN d = FieldNames
    /\ \A f \in FieldNames : d[f] = FieldValue(a, f)

\* C11: the records rebuilt from the agents list of an exported document are as
\* many as the records exported and equal them one by one, in the same order,
\* in every field, absent notes coming back absent
C11_ExportRoundTrips ==
    download.some =>
        LET dicts == Member(download.val, "agents").v
        IN  /\ Len(dicts) = Len(agents)
            /\ Len(agents) > 0
            /\ \A i \in 1..Len(dicts) : RebuildsTo(LoadDict(dicts[i]), agents[i])

\* an export of records of which one has notes and another has none
C11_Witness ==
    /\ download.some
    /\ agents[1].notes = None
    /\ agents[3].notes = Some(<<"note">>)
    /\ RebuildsTo(LoadDict(Member(download.val, "agents").v[1]), agents[1])

-----------------------------------------------------------------------------
(* Properties of the agent collection, checked under Spec and EditorSpec *)

SeedCodenames == << <<"SCRIBE">>, <<"SPARK">>, <<"EARLYBIRD">>, <<"MAGNET">>, <<"RALLY">> >>

\* C12: in every state of a session the collection holds five records whose
\* codenames are SCRIBE, SPARK, EARLYBIRD, MAGNET, RALLY in that order and whose
\* names are those of the seed records, all non-empty and pairwise distinct
C12_SeedRecordsKept ==
    /\ Len(agents) = 5
    /\ [i \in 1..Len(agents) |-> agents[i].codename] = SeedCodenames
    /\ \A i \in 1..Len(agents) :
          /\ agents[i].name = load_default_agents[i].name
          /\ agents[i].name # << >>
          /\ agents[i].codename # << >>
    /\ \A i, j \in 1..Len(agents) :
          i # j => /\ agents[i].name # agents[j].name
                   /\ agents[i].codename # agents[j].codename

\* a send has ended in a session in which the user changed a field of a record
C12_Witness ==
    /\ pc = "done"
    /\ edits = 1
    /\ agents # load_default_agents
    /\ \E i \in 1..Len(agents) : agents[i].mission = <<"x">>

\* C13: once the Agents page has been rendered, no entry of kpis, core_tasks,
\* inputs, outputs, data_sources or guardrails of any record is empty or
\* whitespace-only
C13_NoBlankEntries ==
    page = "Agents" =>
        \A i \in 1..Len(agents) : \A f \in EditedLists :
            \A k \in 1..Len(agents[i][f]) : Visible(agents[i][f][k])

\* C14: a step of a session that changes a record of the collection is a run
\* of the Agents page in which the user changed a widget; runs of the preview,
\* send and export pages and the steps of send_email, on its success and
\* failure paths alike, leave the collection as it is
C14_OnlyEditsChange ==
    [][agents' # agents => page' = "Agents" /\ edits' = edits + 1]_vars

\* C15: a run of the Agents page in which the user changed no widget leaves
\* every record as it was, notes that were absent staying absent
C15_VisitChangesNothing ==
    [][page' = "Agents" /\ edits' = edits => agents' = agents]_vars

====
